---- MODULE Spec2Model ----
(***************************************************************************)
(* Model of rest_client/rest/client.py: BaseClient, ResourceClient and     *)
(* CollectionClient.  One client object lives in `client`; `call` records  *)
(* the last operation invoked on it (its arguments and its outcome) and    *)
(* `http` the requests that operation handed to the HTTP library, with     *)
(* `response` the library's reply.  A call that reaches the HTTP library   *)
(* blocks there (outcome "pending") until the library returns or raises.   *)
(***************************************************************************)
EXTENDS Integers, Sequences, FiniteSets, TLC

VARIABLES client, call, http, response

vars == <<client, call, http, response>>

(* ------------------------------ bounds --------------------------------- *)
\* longest supported_operations list a schema declares
MaxOps == 2
\* largest number a resource object carries in a field
MaxVal == 1

(* --------------------------- value universe ---------------------------- *)
Range(s) == {s[i] : i \in DOMAIN s}

EmptyDict == <<>>

\* dicts: functions from a finite set of names to values
Dicts(names, vals) == UNION {[S -> vals] : S \in SUBSET names}

DictPop(d, k) == [n \in (DOMAIN d) \ {k} |-> d[n]]

DictPut(d, k, v) == [n \in (DOMAIN d) \cup {k} |-> IF n = k THEN v ELSE d[n]]

\* Python values carried by fields and parameters: ints and floats
IntVal(n) == [t |-> "int", n |-> n]

\* values a resource object holds / values a caller passes as parameters
FieldValues == {IntVal(n) : n \in 1..MaxVal}
ParamValues == {IntVal(1)}

Digits(n) ==
    CASE n = 0 -> "0" [] n = 1 -> "1" [] n = 2 -> "2" [] n = 3 -> "3"
      [] OTHER -> "9"

FloatDigits(n) ==
    CASE n = 0 -> "0.0" [] n = 1 -> "1.0" [] n = 2 -> "2.0" [] n = 3 -> "3.0"
      [] OTHER -> "9.0"

\* str() of a value, as str.format renders it into the path
Str(v) == IF v.t = "int" THEN Digits(v.n) ELSE FloatDigits(v.n)

\* the closed Operations enum
Operations == {"get", "get_over_post", "put", "delete"}

\* a supported_operations entry that is not an Operations member
InvalidOperation == "not_an_operation"

\* Field.clean: an IntegerField yields an int, a FloatField a float
Clean(kind, v) == [t |-> IF kind = "IntegerField" THEN "int" ELSE "float", n |-> v.n]

(* ------------------------------ schemas -------------------------------- *)
Lit(s) == [kind |-> "lit", text |-> s]
Var(s) == [kind |-> "var", text |-> s]

\* no path configured (None / ''): falsy
NoPath == <<>>
ArticlePath == <<Lit("/articles/"), Var("id")>>

Paths == {NoPath, ArticlePath}

PathVarLists == {<<>>, <<"id">>, <<"id", "q">>}

FieldNames == {"id"}
ParamNames == {"id", "q"}

FieldSets == {EmptyDict, [n \in {"id"} |-> "FloatField"]}

OpLists == UNION {[1..k -> Operations \cup {InvalidOperation}] : k \in 0..MaxOps}

ReturnResources == {"None", "Article"}

\* cls._meta of a Resource or Collection class
Metas ==
    [none : {FALSE}, path : Paths, path_variables : PathVarLists,
     fields : FieldSets, supported_operations : OpLists,
     default_send_as_json : BOOLEAN, default_return_resource : ReturnResources,
     operation : Operations]

NoMeta ==
    [none |-> TRUE, path |-> NoPath, path_variables |-> <<>>,
     fields |-> EmptyDict, supported_operations |-> <<>>,
     default_send_as_json |-> FALSE, default_return_resource |-> "None",
     operation |-> "get"]

\* Resource schemas leave `operation` at its default, Collection schemas
\* have no fields, operation list, return resource or json switch
ResourceMetas == {m \in Metas : m.operation = "get"}

CollectionMetas ==
    {m \in Metas : /\ m.fields = EmptyDict
                   /\ m.supported_operations = <<>>
                   /\ m.default_send_as_json = FALSE
                   /\ m.default_return_resource = "None"}

\* a resource object handed to put / delete; None has isNone
NoObj == [isNone |-> TRUE, attrs |-> EmptyDict]
Objs == {NoObj} \cup {[isNone |-> FALSE, attrs |-> a] : a \in Dicts(FieldNames, FieldValues)}

Kwargs == Dicts(ParamNames, ParamValues)

(* ------------------------------ outcomes ------------------------------- *)
PyNone == [type |-> "None", cls |-> "None", body |-> ""]
PyTrue == [type |-> "bool", cls |-> "True", body |-> ""]
PyFalse == [type |-> "bool", cls |-> "False", body |-> ""]
PyBool(b) == IF b THEN PyTrue ELSE PyFalse

Return(v) == [kind |-> "return", value |-> v, exc |-> "", status_code |-> 0, message |-> ""]
Raise(e) == [kind |-> "raise", value |-> PyNone, exc |-> e, status_code |-> 0, message |-> ""]
\* blocked in the HTTP library
Pending == [kind |-> "pending", value |-> PyNone, exc |-> "", status_code |-> 0, message |-> ""]

\* exceptions.ApiError(status_code, message)
ApiError(status_code, message) ==
    [kind |-> "raise", value |-> PyNone, exc |-> "ApiError",
     status_code |-> status_code, message |-> message]

(* --------------------------- BaseClient -------------------------------- *)
\* BaseClient.__init__ / ResourceClient.__init__ / CollectionClient.__init__.
\* Of cls._meta the client keeps what it reads after the declaration:
\* fields and default_return_resource.
NewClient(kind) ==
    [kind |-> kind, phase |-> "new",
     path |-> NoPath, path_variables |-> <<>>,
     fields |-> EmptyDict, default_return_resource |-> "None",
     host |-> <<>>,
     get_enabled |-> FALSE, get_over_post_enabled |-> FALSE,
     delete_enabled |-> FALSE, update_enabled |-> FALSE,
     put_enabled |-> FALSE, send_as_json |-> FALSE,
     operation |-> "None"]

MakeAuthHeaders == EmptyDict

\* truthiness of a path / list
Truthy(s) == Len(s) > 0

\* line 64: the value comes from the resource object
FromInstance(c, res, path_var) ==
    (~res.isNone) /\ path_var \in DOMAIN c.fields

\* the loop with a bug: a path variable without a value is passed over
RECURSIVE ResolvePathVars_SkipMissing(_, _, _, _)
ResolvePathVars_SkipMissing(c, res, i, st) ==
    IF i > Len(c.path_variables) \/ st.exc # "" THEN st
    ELSE LET path_var == c.path_variables[i] IN
         IF FromInstance(c, res, path_var) /\ path_var \in DOMAIN res.attrs
         THEN ResolvePathVars_SkipMissing(c, res, i + 1,
                [st EXCEPT !.values = DictPut(st.values, path_var,
                     Clean(c.fields[path_var], res.attrs[path_var]))])
         ELSE IF path_var \in DOMAIN st.kwargs
         THEN ResolvePathVars_SkipMissing(c, res, i + 1,
                [st EXCEPT !.values = DictPut(st.values, path_var, st.kwargs[path_var]),
                           !.kwargs = DictPop(st.kwargs, path_var)])
         ELSE ResolvePathVars_SkipMissing(c, res, i + 1, st)

\* lines 63-73: one pass of the loop over path_variables, from index i on.
\* st = [exc, values, kwargs]
RECURSIVE ResolvePathVars(_, _, _, _)
ResolvePathVars(c, res, i, st) ==
    IF i > Len(c.path_variables) \/ st.exc # "" THEN st
    ELSE LET path_var == c.path_variables[i] IN
         IF FromInstance(c, res, path_var)
         THEN IF path_var \notin DOMAIN res.attrs
              THEN [st EXCEPT !.exc = "AttributeError"]
              ELSE ResolvePathVars(c, res, i + 1,
                     [st EXCEPT !.values = DictPut(st.values, path_var,
                          Clean(c.fields[path_var], res.attrs[path_var]))])
         ELSE IF path_var \in DOMAIN st.kwargs
         THEN ResolvePathVars(c, res, i + 1,
                [st EXCEPT !.values = DictPut(st.values, path_var, st.kwargs[path_var]),
                           !.kwargs = DictPop(st.kwargs, path_var)])
         ELSE [st EXCEPT !.exc = "RuntimeError"]

Brace(name) == CASE name = "id" -> "{id}" [] name = "q" -> "{q}" [] OTHER -> "{}"

\* the path string as written, placeholders unreplaced
Unformatted(path) ==
    [i \in DOMAIN path |->
        IF path[i].kind = "lit" THEN path[i].text ELSE Brace(path[i].text)]

\* str.format(**values): every placeholder needs a value, extra values are ignored
FormatFails(path, values) ==
    \E i \in DOMAIN path : path[i].kind = "var" /\ path[i].text \notin DOMAIN values

Format(path, values) ==
    [i \in DOMAIN path |->
        IF path[i].kind = "lit" THEN path[i].text ELSE Str(values[path[i].text])]

\* urllib.parse.urljoin(base, url): an empty base returns url unchanged
UrlJoin(base, url) == IF base = <<>> THEN url ELSE base \o url

\* _make_url with a bug: kwargs[path_var] read instead of popped
MakeUrl_NoPop(c, res, kwargs) ==
    IF Truthy(c.path_variables)
    THEN LET st == ResolvePathVars(c, res, 1,
                     [exc |-> "", values |-> EmptyDict, kwargs |-> kwargs]) IN
         IF st.exc # "" THEN [exc |-> st.exc, url |-> <<>>, kwargs |-> kwargs]
         ELSE IF FormatFails(c.path, st.values)
         THEN [exc |-> "KeyError", url |-> <<>>, kwargs |-> kwargs]
         ELSE [exc |-> "", url |-> UrlJoin(c.host, Format(c.path, st.values)),
               kwargs |-> kwargs]
    ELSE [exc |-> "", url |-> UrlJoin(c.host, Unformatted(c.path)), kwargs |-> kwargs]

\* BaseClient._make_url(res, **kwargs) -> [exc, url, kwargs]
MakeUrl(c, res, kwargs) ==
    IF Truthy(c.path_variables)
    THEN LET st == ResolvePathVars(c, res, 1,
                     [exc |-> "", values |-> EmptyDict, kwargs |-> kwargs]) IN
         IF st.exc # "" THEN [exc |-> st.exc, url |-> <<>>, kwargs |-> st.kwargs]
         ELSE IF FormatFails(c.path, st.values)
         THEN [exc |-> "KeyError", url |-> <<>>, kwargs |-> st.kwargs]
         ELSE [exc |-> "", url |-> UrlJoin(c.host, Format(c.path, st.values)),
               kwargs |-> st.kwargs]
    ELSE [exc |-> "", url |-> UrlJoin(c.host, Unformatted(c.path)), kwargs |-> kwargs]

(* ------------------------------ HTTP layer ----------------------------- *)
Statuses == {200, 304, 404, 500}

JsonBody == "{\"id\": 1}"
TextBody == "gone"
Bodies == {JsonBody, TextBody}

\* the HTTP library raised requests.exceptions.ConnectionError
ConnectionFailed == [err |-> TRUE, status_code |-> 0, text |-> ""]
\* no request was made, so there is no reply
NoResponse == [err |-> FALSE, status_code |-> 0, text |-> ""]

Responses == {ConnectionFailed} \cup [err : {FALSE}, status_code : Statuses, text : Bodies]

\* ok with a bug: only 2xx counts as success
Ok_TwoHundreds(request) == request.status_code \in 200..299

\* requests.Response.ok: raise_for_status() does not raise, and it raises
\* for the client errors 400..499 and the server errors 500..599
Ok(request) == request.status_code \notin 400..599

\* requests.Response.json() raises ValueError on a body that is not JSON
IsJson(text) == text = JsonBody

\* requests.get(url, params, headers=) / requests.post(url, data, headers=):
\* the second positional argument is params for get and data for post
PositionalRequest(method, url, arg) ==
    [method |-> method, url |-> url,
     params |-> IF method = "GET" THEN arg ELSE EmptyDict,
     encoding |-> IF method = "GET" THEN "none" ELSE "data",
     body |-> IF method = "GET" THEN EmptyDict ELSE arg,
     headers |-> MakeAuthHeaders]

\* requests.post(url, params=, headers=, json= | data=) and
\* requests.delete(url, params=, headers=)
KeywordRequest(method, url, params, encoding, body) ==
    [method |-> method, url |-> url, params |-> params,
     encoding |-> encoding, body |-> body, headers |-> MakeAuthHeaders]

\* _handle_api_error with a bug: no 404 case
HandleApiError_No404(request) == ApiError(request.status_code, request.text)

\* BaseClient._handle_api_error
HandleApiError(request) ==
    IF request.status_code = 404 THEN Raise("ObjectDoesNotExist")
    ELSE ApiError(request.status_code, request.text)

\* cls(**request.json()) / cls(request.json())
Deserialize(cls, request) ==
    IF IsJson(request.text)
    THEN Return([type |-> "instance", cls |-> cls, body |-> request.text])
    ELSE Raise("ValueError")


(* ---------------------------- ResourceClient --------------------------- *)
\* lines 109-127: the loop over supported_operations, from index i on.
\* st = [exc, c]
RECURSIVE EnableOperations(_, _, _)
EnableOperations(supported_operations, i, st) ==
    IF i > Len(supported_operations) \/ st.exc # "" THEN st
    ELSE LET operation == supported_operations[i] IN
         IF operation \notin Operations
         THEN [st EXCEPT !.exc = "ImproperlyConfigured"]
         ELSE IF operation = "get"
         THEN EnableOperations(supported_operations, i + 1,
                               [st EXCEPT !.c.get_enabled = TRUE])
         ELSE IF operation = "get_over_post"
         THEN EnableOperations(supported_operations, i + 1,
                               [st EXCEPT !.c.get_over_post_enabled = TRUE])
         ELSE IF operation = "delete"
         THEN EnableOperations(supported_operations, i + 1,
                               [st EXCEPT !.c.delete_enabled = TRUE])
         ELSE IF operation = "put"
         THEN EnableOperations(supported_operations, i + 1,
                               [st EXCEPT !.c.put_enabled = TRUE])
         ELSE [st EXCEPT !.exc = "NotImplementedError"]

\* the final check with a bug: never fires
BothGetsEnabled_Never(c) == FALSE

\* lines 129-131
BothGetsEnabled(c) == c.get_enabled /\ c.get_over_post_enabled

\* lines 107-131: everything after the path check
ConfigureOperations(c, meta) ==
    LET st == EnableOperations(meta.supported_operations, 1, [exc |-> "", c |-> c]) IN
    IF st.exc # "" THEN st
    ELSE IF BothGetsEnabled(st.c) THEN [st EXCEPT !.exc = "ImproperlyConfigured"]
    ELSE st

\* lines 96-101
AdoptMeta(c, meta) ==
    [c EXCEPT !.path = meta.path, !.path_variables = meta.path_variables,
              !.fields = meta.fields,
              !.default_return_resource = meta.default_return_resource,
              !.send_as_json = meta.default_send_as_json]

\* contribute_to_class with a bug: no early return on a missing path
ResourceContribute_NoPathCheck(c, meta) ==
    ConfigureOperations(AdoptMeta(c, meta), meta)

\* ResourceClient.contribute_to_class -> [exc, c]
ResourceContribute(c, meta) ==
    IF ~Truthy(AdoptMeta(c, meta).path)
    THEN [exc |-> "", c |-> AdoptMeta(c, meta)]
    ELSE ConfigureOperations(AdoptMeta(c, meta), meta)

\* line 144
GetDisabled(c) == (~c.get_enabled) /\ (~c.get_over_post_enabled)

\* the put check with a bug: never fires
PutDisabled_NoCheck(c) == FALSE

\* line 190
PutDisabled(c) == ~c.put_enabled

\* line 234
DeleteDisabled(c) == ~c.delete_enabled

\* what a call has done when it returns, raises or blocks in the HTTP
\* library: its outcome so far and the requests it made
Effect(outcome, requests) == [outcome |-> outcome, http |-> requests]

\* ResourceClient.get(**kwargs) up to the HTTP call
ResourceGet(c, kwargs) ==
    IF GetDisabled(c) THEN Effect(Raise("OperationNotEnabled"), <<>>)
    ELSE LET method == IF c.get_over_post_enabled THEN "POST" ELSE "GET"
             mu == MakeUrl(c, NoObj, kwargs) IN
         IF mu.exc # "" THEN Effect(Raise(mu.exc), <<>>)
         ELSE Effect(Pending, <<PositionalRequest(method, mu.url, mu.kwargs)>>)

\* ResourceClient.get from the HTTP call's return or ConnectionError on
ResourceGetReturn(c, request) ==
    IF request.err THEN Return(PyNone)
    ELSE IF Ok(request) THEN Deserialize("Article", request)
    ELSE HandleApiError(request)

\* lines 196-197: as_json is "None", "True" or "False"
SendAsJson(c, as_json) ==
    IF as_json # "True" THEN c.send_as_json ELSE TRUE

\* lines 193-194
ReturnResource(c, return_resource) ==
    IF return_resource = "None" THEN c.default_return_resource ELSE return_resource

\* obj.to_api(): the object's field values as a dict
ToApi(obj) == obj.attrs

\* ResourceClient.put(obj, return_resource, as_json, **kwargs) up to the HTTP call
ResourcePut(c, obj, as_json, kwargs) ==
    IF PutDisabled(c) THEN Effect(Raise("OperationNotEnabled"), <<>>)
    ELSE LET mu == MakeUrl(c, obj, kwargs) IN
         IF mu.exc # "" THEN Effect(Raise(mu.exc), <<>>)
         ELSE IF obj.isNone THEN Effect(Raise("AttributeError"), <<>>)
         ELSE Effect(Pending,
                     <<KeywordRequest("POST", mu.url, mu.kwargs,
                          IF SendAsJson(c, as_json) THEN "json" ELSE "data",
                          ToApi(obj))>>)

\* ResourceClient.put from the HTTP call's return or ConnectionError on
ResourcePutReturn(c, return_resource, request) ==
    IF request.err THEN Return(PyFalse)
    ELSE IF Ok(request)
    THEN IF ReturnResource(c, return_resource) # "None"
         THEN Deserialize(ReturnResource(c, return_resource), request)
         ELSE Return(PyTrue)
    ELSE HandleApiError(request)

\* ResourceClient.delete(obj, **kwargs) up to the HTTP call
ResourceDelete(c, obj, kwargs) ==
    IF DeleteDisabled(c) THEN Effect(Raise("OperationNotEnabled"), <<>>)
    ELSE LET mu == MakeUrl(c, obj, kwargs) IN
         IF mu.exc # "" THEN Effect(Raise(mu.exc), <<>>)
         ELSE Effect(Pending,
                     <<KeywordRequest("DELETE", mu.url, mu.kwargs, "none", EmptyDict)>>)

\* delete with a bug: ConnectionError is not caught
ResourceDeleteReturn_Uncaught(c, request) ==
    IF request.err THEN Raise("ConnectionError")
    ELSE Return(PyBool(Ok(request)))

\* delete with a bug: a failure status goes to _handle_api_error as in get
ResourceDeleteReturn_Raises(c, request) ==
    IF request.err THEN Return(PyFalse)
    ELSE IF Ok(request) THEN Return(PyTrue)
    ELSE HandleApiError(request)

\* ResourceClient.delete from the HTTP call's return or ConnectionError on
ResourceDeleteReturn(c, request) ==
    IF request.err THEN Return(PyFalse)
    ELSE Return(PyBool(Ok(request)))

(* --------------------------- CollectionClient -------------------------- *)
\* CollectionClient.contribute_to_class -> [exc, c]
CollectionContribute(c, meta) ==
    LET adopted == [c EXCEPT !.path = meta.path,
                             !.path_variables = meta.path_variables,
                             !.fields = meta.fields,
                             !.operation = meta.operation] IN
    IF adopted.operation # "get" /\ adopted.operation # "get_over_post"
    THEN [exc |-> "ImproperlyConfigured", c |-> adopted]
    ELSE [exc |-> "", c |-> adopted]

\* CollectionClient.get(**kwargs) up to the HTTP call
CollectionGet(c, kwargs) ==
    IF ~Truthy(c.path) THEN Effect(Raise("OperationNotEnabled"), <<>>)
    ELSE LET method == IF c.operation = "get_over_post" THEN "POST" ELSE "GET"
             mu == MakeUrl(c, NoObj, kwargs) IN
         IF mu.exc # "" THEN Effect(Raise(mu.exc), <<>>)
         ELSE Effect(Pending, <<PositionalRequest(method, mu.url, mu.kwargs)>>)

\* CollectionClient.get from the HTTP call's return or ConnectionError on
CollectionGetReturn(c, request) ==
    IF request.err THEN Return(PyNone)
    ELSE IF Ok(request) THEN Deserialize("ArticleCollection", request)
    ELSE IF request.status_code = 404 THEN Raise("ObjectDoesNotExist")
    ELSE HandleApiError(request)

(* ------------------------------- actions ------------------------------- *)
NoArgs ==
    [meta |-> NoMeta, obj |-> NoObj, return_resource |-> "None",
     as_json |-> "None", kwargs |-> EmptyDict]

Call(kind, op, args, outcome) ==
    [kind |-> kind, op |-> op, args |-> args, outcome |-> outcome]

Kinds == {"resource", "collection"}

\* no call is blocked in the HTTP library
Idle == call.outcome.kind # "pending"

\* the client serves calls before and after a successful declaration; a
\* declaration that raised leaves no class to call
Callable == Idle /\ client.phase \in {"new", "declared"}

Init ==
    /\ \E kind \in Kinds :
         /\ client = NewClient(kind)
         /\ call = Call(kind, "__init__", NoArgs, Return(PyNone))
    /\ http = <<>>
    /\ response = NoResponse

\* a fresh client object is constructed
Construct ==
    /\ Idle
    /\ \E kind \in Kinds :
         /\ client' = NewClient(kind)
         /\ call' = Call(kind, "__init__", NoArgs, Return(PyNone))
    /\ http' = <<>>
    /\ response' = NoResponse

Declared(r, meta) ==
    /\ client' = [r.c EXCEPT !.phase = IF r.exc = "" THEN "declared" ELSE "failed"]
    /\ call' = Call(client.kind, "contribute_to_class", [NoArgs EXCEPT !.meta = meta],
                    IF r.exc = "" THEN Return(PyNone) ELSE Raise(r.exc))
    /\ http' = <<>>
    /\ response' = NoResponse

\* the schema's metaclass hands the class to the client, once per client
ContributeResource ==
    /\ Idle
    /\ client.kind = "resource"
    /\ client.phase = "new"
    /\ \E meta \in ResourceMetas : Declared(ResourceContribute(client, meta), meta)

ContributeCollection ==
    /\ Idle
    /\ client.kind = "collection"
    /\ client.phase = "new"
    /\ \E meta \in CollectionMetas : Declared(CollectionContribute(client, meta), meta)

Apply(op, args, e) ==
    /\ call' = Call(client.kind, op, args, e.outcome)
    /\ http' = e.http
    /\ response' = NoResponse
    /\ UNCHANGED client

Get ==
    /\ Callable
    /\ client.kind = "resource"
    /\ \E kwargs \in Kwargs :
         Apply("get", [NoArgs EXCEPT !.kwargs = kwargs], ResourceGet(client, kwargs))

Put ==
    /\ Callable
    /\ client.kind = "resource"
    /\ \E obj \in Objs, rr \in ReturnResources, as_json \in {"None", "True", "False"},
          kwargs \in Kwargs :
         Apply("put", [NoArgs EXCEPT !.obj = obj, !.return_resource = rr,
                                     !.as_json = as_json, !.kwargs = kwargs],
               ResourcePut(client, obj, as_json, kwargs))

Delete ==
    /\ Callable
    /\ client.kind = "resource"
    /\ \E obj \in Objs, kwargs \in Kwargs :
         Apply("delete", [NoArgs EXCEPT !.obj = obj, !.kwargs = kwargs],
               ResourceDelete(client, obj, kwargs))

GetCollection ==
    /\ Callable
    /\ client.kind = "collection"
    /\ \E kwargs \in Kwargs :
         Apply("get", [NoArgs EXCEPT !.kwargs = kwargs], CollectionGet(client, kwargs))

\* the rest of the blocked call, once the HTTP library has answered
Resume(request) ==
    IF call.kind = "collection" THEN CollectionGetReturn(client, request)
    ELSE IF call.op = "get" THEN ResourceGetReturn(client, request)
    ELSE IF call.op = "put"
    THEN ResourcePutReturn(client, call.args.return_resource, request)
    ELSE ResourceDeleteReturn(client, request)

\* the HTTP library returns a response or raises ConnectionError, and the
\* blocked call runs to its end
HttpReturns ==
    /\ ~Idle
    /\ \E reply \in Responses :
         /\ response' = reply
         /\ call' = [call EXCEPT !.outcome = Resume(reply)]
    /\ UNCHANGED <<client, http>>

Next ==
    \/ Construct
    \/ ContributeResource
    \/ ContributeCollection
    \/ Get
    \/ Put
    \/ Delete
    \/ GetCollection
    \/ HttpReturns

Spec == Init /\ [][Next]_vars

TypeOK ==
    /\ client.kind \in Kinds
    /\ client.phase \in {"new", "declared", "failed"}
    /\ call.outcome.kind \in {"return", "raise", "pending"}
    /\ Len(http) <= 1

(* ------------------------- reading the call log ------------------------ *)
ResourceCall(op) == call.kind = "resource" /\ call.op = op
CollectionGetCall == call.kind = "collection" /\ call.op = "get"
Declaration == call.op = "contribute_to_class"
DeclaredOps == Range(call.args.meta.supported_operations)

\* the HTTP library has answered the last call with a status
Answered == call.outcome.kind # "pending" /\ http # <<>> /\ ~response.err

\* the last call's object can supply path variable v
InstanceSupplies(v) ==
    (~call.args.obj.isNone) /\ v \in DOMAIN client.fields

\* path variable v of the last call has no source at all
Unresolvable(v) ==
    /\ v \notin DOMAIN call.args.kwargs
    /\ ~(InstanceSupplies(v) /\ v \in DOMAIN call.args.obj.attrs)

\* every path variable of the last call finds its value
AllResolve ==
    \A v \in Range(client.path_variables) :
        IF InstanceSupplies(v) THEN v \in DOMAIN call.args.obj.attrs
        ELSE v \in DOMAIN call.args.kwargs

\* the operation of the last call passed its enabled check
EnabledCall ==
    \/ ResourceCall("get") /\ (client.get_enabled \/ client.get_over_post_enabled)
    \/ ResourceCall("put") /\ client.put_enabled
    \/ ResourceCall("delete") /\ client.delete_enabled
    \/ CollectionGetCall /\ client.path # NoPath

(* -------------------------------- C1 ----------------------------------- *)
\* C1: a Resource operation (get, put, delete) whose flag the declaration
\* left unset raises OperationNotEnabled and issues no HTTP request, for
\* every object and parameters; the flags a successful declaration with a
\* path sets are exactly the declared operations.
C1_DisabledOperationRaises ==
    /\ (ResourceCall("get") /\ ~client.get_enabled /\ ~client.get_over_post_enabled)
         => (call.outcome = Raise("OperationNotEnabled") /\ http = <<>>)
    /\ (ResourceCall("put") /\ ~client.put_enabled)
         => (call.outcome = Raise("OperationNotEnabled") /\ http = <<>>)
    /\ (ResourceCall("delete") /\ ~client.delete_enabled)
         => (call.outcome = Raise("OperationNotEnabled") /\ http = <<>>)
    /\ (Declaration /\ call.kind = "resource" /\ call.outcome.kind = "return"
        /\ client.path # NoPath)
         => /\ client.get_enabled <=> "get" \in DeclaredOps
            /\ client.get_over_post_enabled <=> "get_over_post" \in DeclaredOps
            /\ client.put_enabled <=> "put" \in DeclaredOps
            /\ client.delete_enabled <=> "delete" \in DeclaredOps

C1_Witness ==
    /\ ResourceCall("put")
    /\ client.phase = "declared" /\ client.path # NoPath
    /\ client.get_enabled /\ ~client.put_enabled
    /\ ~call.args.obj.isNone /\ "id" \in DOMAIN call.args.kwargs
    /\ call.outcome = Raise("OperationNotEnabled")

(* -------------------------------- C2 ----------------------------------- *)
\* C2 as stated: a Resource schema declaring both get and get_over_post
\* fails with ImproperlyConfigured whatever its path is.
C2_BothGetsAlwaysRejected ==
    (Declaration /\ call.kind = "resource"
     /\ {"get", "get_over_post"} \subseteq DeclaredOps)
      => call.outcome = Raise("ImproperlyConfigured")

\* C2 amended: a Resource schema with a configured (non-empty) path that
\* declares both get and get_over_post fails with ImproperlyConfigured.
C2_BothGetsRejectedWithPath ==
    (Declaration /\ call.kind = "resource"
     /\ call.args.meta.path # NoPath
     /\ {"get", "get_over_post"} \subseteq DeclaredOps)
      => (call.outcome = Raise("ImproperlyConfigured") /\ client.phase = "failed")

C2_Witness ==
    /\ Declaration /\ call.kind = "resource"
    /\ call.args.meta.path # NoPath
    /\ call.args.meta.supported_operations = <<"get", "get_over_post">>
    /\ call.outcome = Raise("ImproperlyConfigured")

(* -------------------------------- C3 ----------------------------------- *)
\* C3: an enabled operation on a schema with path variables, one of which
\* neither the supplied object nor the supplied parameters can resolve,
\* raises during URL construction and the HTTP layer sees no request.
C3_UnresolvedPathVariableFails ==
    (EnabledCall /\ \E v \in Range(client.path_variables) : Unresolvable(v))
      => /\ call.outcome.kind = "raise"
         /\ call.outcome.exc \in {"RuntimeError", "AttributeError"}
         /\ http = <<>>

C3_Witness ==
    /\ ResourceCall("put") /\ client.put_enabled
    /\ client.path_variables = <<"id", "q">>
    /\ InstanceSupplies("id") /\ "id" \in DOMAIN call.args.obj.attrs
    /\ Unresolvable("q")
    /\ call.outcome = Raise("RuntimeError")
    /\ http = <<>>

(* -------------------------------- C4 ----------------------------------- *)
\* C4: a get (Resource or Collection, over GET or over POST) answered with
\* status 404 raises ObjectDoesNotExist, not ApiError.
C4_Get404IsNotFound ==
    (call.op = "get" /\ Answered /\ response.status_code = 404)
      => call.outcome = Raise("ObjectDoesNotExist")

C4_Witness ==
    /\ ResourceCall("get") /\ client.get_over_post_enabled
    /\ Answered /\ response.status_code = 404
    /\ http[1].method = "POST"
    /\ call.outcome = Raise("ObjectDoesNotExist")

(* -------------------------------- C5 ----------------------------------- *)
\* C5: when the HTTP call ends in a connection error nothing is raised:
\* get (Resource and Collection) returns None, put and delete return False.
C5_ConnectionErrorIsSentinel ==
    (call.outcome.kind # "pending" /\ http # <<>> /\ response.err)
      => /\ call.op = "get" => call.outcome = Return(PyNone)
         /\ call.op \in {"put", "delete"} => call.outcome = Return(PyFalse)

C5_Witness ==
    /\ ResourceCall("delete")
    /\ http # <<>> /\ response = ConnectionFailed
    /\ call.outcome = Return(PyFalse)

(* -------------------------------- C6 ----------------------------------- *)
\* the outcome of the success path of the last get or put
SuccessPath ==
    IF call.op = "put"
         /\ call.args.return_resource = "None"
         /\ client.default_return_resource = "None"
    THEN call.outcome = Return(PyTrue)
    ELSE IF response.text = JsonBody
    THEN /\ call.outcome.kind = "return"
         /\ call.outcome.value.type = "instance"
         /\ call.outcome.value.body = response.text
    ELSE call.outcome = Raise("ValueError")

GetOrPutAnswered == call.op \in {"get", "put"} /\ Answered

\* C6 as stated: for get and put a 2xx status takes the success path, 404
\* raises not-found and every status that is neither 2xx nor 404 raises
\* ApiError carrying the status code and the raw body.
C6_OnlyTwoHundredsSucceed ==
    GetOrPutAnswered
      => IF response.status_code \in 200..299 THEN SuccessPath
         ELSE IF response.status_code = 404
         THEN call.outcome = Raise("ObjectDoesNotExist")
         ELSE call.outcome = ApiError(response.status_code, response.text)

\* C6 amended: for get and put every status outside 400..599 (1xx and 3xx
\* as well as 2xx) takes the success path, 404 raises not-found and every
\* other status in 400..599 raises ApiError whose status_code and message
\* are the response's status code and raw body.
C6_StatusDecidesOutcome ==
    GetOrPutAnswered
      => IF response.status_code < 400 \/ response.status_code > 599 THEN SuccessPath
         ELSE IF response.status_code = 404
         THEN call.outcome = Raise("ObjectDoesNotExist")
         ELSE /\ call.outcome.kind = "raise"
              /\ call.outcome.exc = "ApiError"
              /\ call.outcome.status_code = response.status_code
              /\ call.outcome.message = response.text

C6_Witness ==
    /\ ResourceCall("get") /\ Answered
    /\ response.status_code = 304 /\ response.text = JsonBody
    /\ call.outcome.kind = "return"
    /\ call.outcome.value.type = "instance"

(* -------------------------------- C7 ----------------------------------- *)
\* C7: put sends the object as JSON when the caller passes as_json=True, as
\* multipart/form-data when the caller passes as_json=False, and follows the
\* schema's default_send_as_json only when the caller passes no as_json.
C7_CallerChoosesEncoding ==
    (ResourceCall("put") /\ http # <<>>)
      => /\ call.args.as_json = "True" => http[1].encoding = "json"
         /\ call.args.as_json = "False" => http[1].encoding = "data"
         /\ call.args.as_json = "None"
              => http[1].encoding = IF client.send_as_json THEN "json" ELSE "data"

(* -------------------------------- C8 ----------------------------------- *)
\* C8: an enabled delete whose path variables resolve issues exactly one
\* DELETE request and returns a boolean: False on a connection error, else
\* whether the status is a success status; no response status makes it raise
\* (404 gives False).
C8_DeleteReturnsBoolean ==
    /\ (ResourceCall("delete") /\ client.delete_enabled /\ AllResolve)
         => /\ Len(http) = 1
            /\ http[1].method = "DELETE"
            /\ call.outcome.kind \in {"pending", "return"}
            /\ (call.outcome.kind = "return")
                 => call.outcome.value =
                      PyBool(/\ ~response.err
                             /\ (response.status_code < 400 \/ response.status_code > 599))
    /\ (ResourceCall("delete") /\ Answered /\ response.status_code = 404)
         => call.outcome = Return(PyFalse)

C8_Witness ==
    /\ ResourceCall("delete") /\ client.delete_enabled /\ AllResolve
    /\ Answered /\ response.status_code = 404
    /\ call.outcome = Return(PyFalse)

(* -------------------------------- C9 ----------------------------------- *)
\* the request of the last call carries its residual parameters in params,
\* a get over POST in the body
Residual == IF call.op = "get" /\ http[1].method = "POST" THEN http[1].body
            ELSE http[1].params

\* the path variables whose value the last call took from its parameters
Popped == {v \in Range(client.path_variables) : ~InstanceSupplies(v)}

\* C9: _make_url substitutes, for a path variable that is a declared field
\* of a supplied object, the object's value passed through the field's clean
\* (also when a parameter of that name is supplied), else the value popped
\* from the parameters; the residual parameters are the supplied ones minus
\* the popped ones, so a parameter named like an object-resolved path
\* variable stays and is sent.
C9_UrlBuilder ==
    (http # <<>> /\ client.path_variables # <<>>)
      => /\ http[1].url =
              <<"/articles/",
                IF InstanceSupplies("id")
                THEN Str(Clean(client.fields["id"], call.args.obj.attrs["id"]))
                ELSE Str(call.args.kwargs["id"])>>
         /\ Residual = [n \in (DOMAIN call.args.kwargs) \ Popped |-> call.args.kwargs[n]]

C9_Witness ==
    /\ ResourceCall("put") /\ http # <<>>
    /\ client.path_variables = <<"id", "q">>
    /\ InstanceSupplies("id")
    /\ call.args.obj.attrs["id"] = IntVal(1)
    /\ call.args.kwargs = [n \in {"id", "q"} |-> IntVal(1)]
    /\ http[1].url = <<"/articles/", "1.0">>
    /\ DOMAIN http[1].params = {"id"}

(* -------------------------------- C10 ---------------------------------- *)
\* C10: without a configured path every operation is disabled whatever the
\* schema declares: a Resource declaration with an empty path returns
\* without enabling or validating any operation, so get, put and delete
\* raise OperationNotEnabled from then on; a Collection without a path
\* raises OperationNotEnabled on get.
C10_NoPathDisablesEverything ==
    /\ (call.kind = "resource" /\ Declaration /\ call.args.meta.path = NoPath)
         => (call.outcome = Return(PyNone) /\ client.phase = "declared")
    /\ (client.kind = "resource" /\ client.path = NoPath)
         => /\ ~client.get_enabled /\ ~client.get_over_post_enabled
            /\ ~client.put_enabled /\ ~client.delete_enabled
    /\ (client.path = NoPath /\ call.op \in {"get", "put", "delete"})
         => (call.outcome = Raise("OperationNotEnabled") /\ http = <<>>)

C10_Witness ==
    /\ client.phase = "declared" /\ client.path = NoPath
    /\ ResourceCall("put") /\ ~call.args.obj.isNone
    /\ call.outcome = Raise("OperationNotEnabled")

====
